---- MODULE Spec2Model ----
(***************************************************************************)
(* EMCCD detector simulation: the EM gain sampler (rand_em_gain.py) and    *)
(* the detector pass that calls it (emccd_detect.py).                      *)
(*                                                                         *)
(* Representation of numbers                                               *)
(*  - Electron counts are held in half-electron units: the stored value v  *)
(*    stands for v/2 e-, so that the fractional count 1.5 e- is 3, and     *)
(*    n_in == 1 reads v = 2, n_in == 2 reads v = 4.                        *)
(*  - A uniform draw is u = 1 - 2^(-k), named by k in 0..MaxK (u = 0, 1/2, *)
(*    3/4, 7/8, ...), so that log(1 - u) = -k*log(2).                      *)
(*  - Logarithms are in thousandths (milli-nats).  exp() is 0 where a      *)
(*    double underflows (below log(2^-1075)); the pdf weights that remain  *)
(*    are fixed point numbers with FracBits fractional bits, relative to   *)
(*    the largest weight of the axis.                                      *)
(*  - A CDF is the exact fraction num[i]/den; 0/0 is NaN.                  *)
(***************************************************************************)
EXTENDS Integers, Sequences, FiniteSets, TLC

VARIABLES entry, pc, err, draws,
          n_in_array, em_gain, max_out, gain_cic, n_elements,
          n_out_array, primary, zero_mask, cic_counts_inds,
          n_elements_partial, partial_gain_array,
          samples, cdfs,
          fluxmap, shape, frametime, cic, cr_rate, shot_noise_on,
          image_frame, result

vars == <<entry, pc, err, draws,
          n_in_array, em_gain, max_out, gain_cic, n_elements,
          n_out_array, primary, zero_mask, cic_counts_inds,
          n_elements_partial, partial_gain_array,
          samples, cdfs,
          fluxmap, shape, frametime, cic, cr_rate, shot_noise_on,
          image_frame, result>>

(***************************************************************************)
(* Bounds of the model                                                     *)
(***************************************************************************)
MaxLen == 2
MaxK == 2
FracBits == 16

\* Input counts, in half-electron units: 0, 1, 1.5, 2, 3 and 23 e-.
Counts == {0, 2, 3, 4, 6, 46}
\* Gains: one below 1, the edge 1, and 64 = 64^1 = 4^3.
Gains == {0, 1, 64}
\* Output bounds max_out (integers >= 1, the length of the CDF axis).
MaxOuts == {1, 3}
\* Input counts of the calls with partial CIC: 0 and 1 e-.
CicInputCounts == {0, 2}
\* Values of a Poisson draw with a nonzero mean (e-).
PoissonCounts == {0, 1}
\* Numbers of gain register elements n_elements.
Elements == {1, 3}
\* Frame times (s) and mean photon rates (half-photons/pix/s; qe = 1).
FrameTimes == {1, 2}
Fluxes == {0, 3}

(***************************************************************************)
(* Arithmetic helpers                                                      *)
(***************************************************************************)
RECURSIVE Pow(_, _)
Pow(b, e) == IF e = 0 THEN 1 ELSE b * Pow(b, e - 1)

RECURSIVE SumTo(_, _)
SumTo(f, i) == IF i = 0 THEN 0 ELSE f[i] + SumTo(f, i - 1)

SetMax(S) == CHOOSE m \in S : \A y \in S : y <= m
SetMin(S) == CHOOSE m \in S : \A y \in S : m <= y

\* Whole electrons as a stored count.
E(v) == 2 * v

(***************************************************************************)
(* Library functions on the grid of the model                              *)
(***************************************************************************)
\* np.log of 1..16, in thousandths.
LogTable == <<0, 693, 1099, 1386, 1609, 1792, 1946, 2079,
              2197, 2303, 2398, 2485, 2565, 2639, 2708, 2773>>

RECURSIVE Log(_)
Log(x) == IF x <= 16 THEN LogTable[x] ELSE LogTable[2] + Log(x \div 2)

\* log(np.finfo(float).eps) = log(2^-52), in thousandths.
LogEps == -36044

\* np.exp returns 0 below log(2^-1075), in thousandths.
ExpUnderflow == -745133

\* special.gammaln(n) for n = 1/2, 1, 3/2, ..., 23 (index 2n), in thousandths.
GammaLnTable == <<572, 0, -121, 0, 285, 693, 1201, 1792, 2454, 3178,
                   3958, 4787, 5663, 6579, 7534, 8525, 9549, 10605, 11689, 12802,
                   13941, 15104, 16292, 17502, 18734, 19987, 21260, 22552, 23863, 25191,
                   26537, 27899, 29278, 30672, 32081, 33505, 34943, 36395, 37861, 39340,
                   40832, 42336, 43852, 45380, 46920, 48471>>

\* -special.lambertw((u-1)/e, -1).real - 1 at u = 1 - 2^-k (index k+1),
\* in thousandths.
LambertTable == <<0, 1678, 2693, 3607, 4472, 5307, 6122, 6922>>

\* np.round: round half to even, of num/den >= 0.
Round(num, den) ==
    LET q == num \div den
        r == num % den
    IN  IF 2 * r < den THEN q
        ELSE IF 2 * r > den THEN q + 1
        ELSE IF q % 2 = 0 THEN q ELSE q + 1

\* exp(d/1000) for d <= 0 as a fixed point number with FracBits fractional
\* bits: 2^q * exp(r/1000) with d = 693*q + r, exp(r/1000) by its series.
Exp(d) ==
    LET q == d \div LogTable[2]
        r == d - LogTable[2] * q
        m == 1000000 + 1000 * r + (r * r) \div 2 + (r * r * r) \div 6000
    IN  IF FracBits + q < 0 THEN 0
        ELSE ((m \div 1000) * Pow(2, FracBits + q)) \div 1000

(***************************************************************************)
(* _get_cdf                                                                *)
(***************************************************************************)
\* log of x_axis[j], j = 0..x_max-1: x_axis = arange(0, x_max), x_axis[0] = eps.
LogX(j) == IF j = 0 THEN LogEps ELSE Log(j)

\* x_axis[j]/em_gain in thousandths (eps/em_gain is 0 to that precision).
XOverG(j, g) == (1000 * j) \div g

\* logpdf = (n_in-1)*log(x) - x/em_gain - n_in*log(em_gain) - gammaln(n_in),
\* with n the count in half-electrons: n_in - 1 = (n-2)/2.
logpdf(n, g, j) ==
    ((n - 2) * LogX(j)) \div 2 - XOverG(j, g) - (n * Log(g)) \div 2
        - GammaLnTable[n]

\* pdf = exp(logpdf) over an axis of length L, held relative to its largest
\* entry (pdf/sum(pdf) does not change under a common factor).  An entry is
\* 0 where exp underflows.
pdf(n, g, L) ==
    LET l == [j \in 1..L |-> logpdf(n, g, j - 1)]
        live == {j \in 1..L : l[j] >= ExpUnderflow}
        top == SetMax({l[j] : j \in live})
    IN  [j \in 1..L |-> IF j \in live THEN Exp(l[j] - top) ELSE 0]

\* A variant that normalises without accumulating: pdf / sum(pdf).
get_cdf_nocumsum(n, g, L) ==
    LET w == pdf(n, g, L)
        s == SumTo(w, L)
    IN  [nan |-> s = 0, num |-> [j \in 1..L |-> w[j]], den |-> s]

\* cdf = cumsum(pdf / sum(pdf)): the fraction num[j]/den, NaN when sum is 0.
get_cdf(n, g, L) ==
    LET w == pdf(n, g, L)
        s == SumTo(w, L)
    IN  [nan |-> s = 0, num |-> [j \in 1..L |-> SumTo(w, j)], den |-> s]

(***************************************************************************)
(* _rand_pdf                                                               *)
(***************************************************************************)
\* The branch of _rand_pdf taken for the count n.
SamplingPath(n) ==
    IF n = E(1) THEN "exp" ELSE IF n = E(2) THEN "lambert" ELSE "cdf"

\* cdf_lookups = (cdf.max() - cdf.min())*x + cdf.min() at x = 1 - 2^-k, as a
\* numerator over den * 2^k.
cdf_lookups(cdf, k) ==
    LET vals == {cdf.num[j] : j \in DOMAIN cdf.num}
        hi == SetMax(vals)
        lo == SetMin(vals)
    IN  (hi - lo) * (Pow(2, k) - 1) + lo * Pow(2, k)

\* A variant searching with side='right': first index strictly above.
searchsorted_right(cdf, k) ==
    LET L == Len(cdf.num)
        hits == {j \in 1..L : cdf.num[j] * Pow(2, k) > cdf_lookups(cdf, k)}
    IN  IF cdf.nan THEN 0
        ELSE IF hits = {} THEN L ELSE SetMin(hits) - 1

\* np.searchsorted(cdf, cdf_lookups): the first 0-based index whose entry is
\* at or above the lookup, len(cdf) when there is none; a NaN lookup in an
\* all-NaN array is found at index 0.
searchsorted(cdf, k) ==
    LET L == Len(cdf.num)
        hits == {j \in 1..L : cdf.num[j] * Pow(2, k) >= cdf_lookups(cdf, k)}
    IN  IF cdf.nan THEN 0
        ELSE IF hits = {} THEN L ELSE SetMin(hits) - 1

\* The index into x_axis on the CDF path.
CdfIndex(n, g, x_max, k) == searchsorted(get_cdf(n, g, x_max), k)

\* One sample of _rand_pdf(n_in, em_gain, x_max, size) for the draw k, as a
\* stored count.  np.round(x_axis[idx]) is idx, and 0 for x_axis[0] = eps.
rand_pdf(n, g, x_max, k) ==
    IF n = E(1) THEN E(Round(g * k * LogTable[2], 1000))
    ELSE IF n = E(2) THEN E(Round(g * LambertTable[k + 1], 1000))
    ELSE E(CdfIndex(n, g, x_max, k))

(***************************************************************************)
(* The sampler over the grid of the model                                  *)
(***************************************************************************)
\* em_gain**(1/n_elements), exact for the gains and element counts of Init.
Root(g, N) == CHOOSE b \in 1..g : Pow(b, N) = g

\* rate_per_element = em_gain**(1/n_elements) - 1
rate_per_element(g, N) == Root(g, N) - 1

\* (1 + rate_per_element)**n_elements_partial
PartialGain(g, N, s) == Pow(1 + rate_per_element(g, N), s)

\* The counts and gains _rand_pdf can be called with.
SampledCounts == (Counts \ {0}) \cup {E(p) : p \in PoissonCounts \ {0}}
SampledGains ==
    {g \in Gains : g >= 1}
        \cup UNION {{PartialGain(g, N, s) : s \in 0..(N - 1)} :
                     g \in {x \in Gains : x >= 1}, N \in Elements}

\* What one call of _rand_pdf does for the draw k.
Sample(n, g, x_max, k) ==
    [path |-> SamplingPath(n),
     nan |-> IF SamplingPath(n) = "cdf" THEN get_cdf(n, g, x_max).nan
             ELSE FALSE,
     idx |-> IF SamplingPath(n) = "cdf" THEN CdfIndex(n, g, x_max, k) ELSE 0,
     out |-> rand_pdf(n, g, x_max, k)]

\* Sample and _get_cdf, evaluated once for every argument.
SampleTable ==
    [n \in SampledCounts, g \in SampledGains, x \in MaxOuts, k \in 0..MaxK |->
        Sample(n, g, x, k)]
CdfTable ==
    [n \in {m \in SampledCounts : SamplingPath(m) = "cdf"},
     g \in SampledGains, x \in MaxOuts |-> get_cdf(n, g, x)]

(***************************************************************************)
(* _apply_gain                                                             *)
(***************************************************************************)
\* n_in_unique = np.unique(n_in_array)[n_in_unique > 0]
n_in_unique(arr) == {v \in {arr[i] : i \in DOMAIN arr} : v > 0}

\* A variant selecting every position at or below n_in.
inds_atmost(arr, n) == {i \in DOMAIN arr : arr[i] <= n}

\* inds = np.where(n_in_array == n_in)[0]
inds(arr, n) == {i \in DOMAIN arr : arr[i] = n}

\* The count whose sample position i holds after the loop over n_in_unique
\* (ascending; a later assignment overwrites), 0 when no group holds i.
DispatchedFor(arr, i) ==
    LET ns == {n \in n_in_unique(arr) : i \in inds(arr, n)}
    IN  IF ns = {} THEN 0 ELSE SetMax(ns)

\* n_out_array of _apply_gain; ks[i] is the uniform draw that lands on i.
apply_gain(arr, g, x_max, ks) ==
    [i \in 1..Len(arr) |->
        LET n == DispatchedFor(arr, i)
        IN  IF n = 0 THEN 0 ELSE SampleTable[n, g, x_max, ks[i]].out]

\* The samples _apply_gain draws, one record per position sampled; at[i] is
\* the position of arr[i] in the caller's array.
SamplesOf(arr, g, x_max, ks, call, at) ==
    {LET n == DispatchedFor(arr, i)
         s == SampleTable[n, g, x_max, ks[i]]
     IN  [call |-> call, pos |-> at[i], n |-> n, gain |-> g,
          path |-> s.path, nan |-> s.nan, idx |-> s.idx, len |-> x_max,
          out |-> s.out] :
        i \in {j \in 1..Len(arr) : DispatchedFor(arr, j) # 0}}

\* The CDFs _apply_gain builds, one per count on the CDF path.
CdfsOf(arr, g, x_max) ==
    {[n |-> n, gain |-> g, len |-> x_max, cdf |-> CdfTable[n, g, x_max]] :
        n \in {m \in n_in_unique(arr) : SamplingPath(m) = "cdf"}}

\* x_axis[idx] with idx = len(x_axis) raises IndexError.
IndexError(S) == \E s \in S : s.path = "cdf" /\ s.idx >= s.len

(***************************************************************************)
(* _partial_cic helpers                                                    *)
(***************************************************************************)
RECURSIVE SortedSeq(_)
SortedSeq(S) ==
    IF S = {} THEN <<>> ELSE <<SetMin(S)>> \o SortedSeq(S \ {SetMin(S)})

\* A variant taking every position as a CIC candidate.
ZeroMaskAll(arr) == {i \in DOMAIN arr : arr[i] >= 0}

\* zero_mask = (n_out_array == 0)
ZeroMask(arr) == {i \in DOMAIN arr : arr[i] = 0}

\* np.round(x * (n_elements-1)).astype(int) at x = 1 - 2^-k
ElementsPartial(k, N) == Round((Pow(2, k) - 1) * (N - 1), Pow(2, k))

\* The positions of cic_counts_inds (a sequence) whose partial gain is pg.
GainGroup(cinds, pga, pg) ==
    SortedSeq({cinds[m] : m \in {x \in DOMAIN cinds : pga[x] = pg}})

\* arr[at] for a sequence of positions at.
Gather(arr, at) == [m \in 1..Len(at) |-> arr[at[m]]]

\* n_out_array after the loop over np.unique(partial_gain_array).
CicApplied(arr, cinds, pga, x_max, ks) ==
    [i \in 1..Len(arr) |->
        IF \E m \in DOMAIN cinds : cinds[m] = i
        THEN LET m == CHOOSE x \in DOMAIN cinds : cinds[x] = i
                 at == GainGroup(cinds, pga, pga[m])
                 j == CHOOSE x \in DOMAIN at : at[x] = i
             IN  apply_gain(Gather(arr, at), pga[m], x_max,
                            Gather(ks, at))[j]
        ELSE arr[i]]

\* The samples drawn in the loop over np.unique(partial_gain_array).
CicSamples(arr, cinds, pga, x_max, ks) ==
    UNION {SamplesOf(Gather(arr, GainGroup(cinds, pga, pg)), pg, x_max,
                     Gather(ks, GainGroup(cinds, pga, pg)), "cic",
                     GainGroup(cinds, pga, pg)) :
           pg \in {pga[m] : m \in DOMAIN pga}}

CicCdfs(arr, cinds, pga, x_max) ==
    UNION {CdfsOf(Gather(arr, GainGroup(cinds, pga, pg)), pg, x_max) :
           pg \in {pga[m] : m \in DOMAIN pga}}

(***************************************************************************)
(* emccd_detect helpers                                                    *)
(***************************************************************************)
\* 2-D shapes of the flux map.
Shapes == {<<1, 1>>, <<1, 2>>, <<2, 1>>}

\* Image area and serial register full well capacities (stored counts).
full_well_image == E(2)
full_well_serial == E(3)

\* Required positional parameters of rand_em_gain: n_in_array, em_gain,
\* max_out.
RandEmGainRequired == 3

\* serial_register's call: rand_em_gain(serial_frame, em_gain).
SerialRegisterCall(frame, g) == <<frame, g>>

\* np.random.poisson(mean): 0 for mean 0, any count otherwise (whole e-).
Poisson(mean) == IF mean = 0 THEN {0} ELSE {E(p) : p \in PoissonCounts}

\* cosmic_hits(image_frame, cr_rate, ...): with a nonzero rate any set of
\* pixels is hit and holds more than the full well.
cosmic_hits(frame, rate, hit) ==
    [i \in 1..Len(frame) |->
        IF rate # 0 /\ i \in hit THEN frame[i] + full_well_image + E(1)
        ELSE frame[i]]

\* arr[arr > cap] = cap
Cap(arr, cap) == [i \in 1..Len(arr) |-> IF arr[i] > cap THEN cap ELSE arr[i]]

\* serial_register after rand_em_gain returns: the full-well cap, the fixed
\* pattern (zeros), read noise (read_noise = 1 e-, noise[i] the normal draw,
\* bias = 0) and the reshape to the shape of image_frame.
SerialRegisterTail(arr, noise, shp) ==
    [shape |-> shp,
     data |-> [i \in 1..Len(arr) |->
                  Cap(arr, full_well_serial)[i] + 0 + E(1) * noise[i] + 0]]

(***************************************************************************)
(* Initial states: a call of rand_em_gain, or a call of emccd_detect       *)
(***************************************************************************)
Arrays(C) == UNION {[1..n -> C] : n \in 0..MaxLen}

\* CIC rates: gain_cic of rand_em_gain and cic of emccd_detect (e-).
CicRates == {0, 1}

InitLocals ==
    /\ err = "none"
    /\ draws = 0
    /\ n_out_array = <<>>
    /\ primary = <<>>
    /\ zero_mask = {}
    /\ cic_counts_inds = <<>>
    /\ n_elements_partial = <<>>
    /\ partial_gain_array = <<>>
    /\ samples = {}
    /\ cdfs = {}
    /\ image_frame = <<>>
    /\ result = [shape |-> <<>>, data |-> <<>>]

\* n_elements is read only by _partial_cic, so the calls with gain_cic = 0
\* take one value of it.
InitGain ==
    /\ entry = "rand_em_gain"
    /\ pc = "rand_em_gain"
    /\ gain_cic \in CicRates
    /\ n_in_array \in Arrays(IF gain_cic = 0 THEN Counts ELSE CicInputCounts)
    /\ em_gain \in Gains
    /\ max_out \in MaxOuts
    /\ n_elements \in IF gain_cic = 0 THEN {SetMax(Elements)} ELSE Elements
    /\ fluxmap = <<>>
    /\ shape = <<0, 0>>
    /\ frametime = 1
    /\ cic = 0
    /\ cr_rate = 0
    /\ shot_noise_on = TRUE

\* max_out, gain_cic and n_elements are bound only by a call of rand_em_gain.
InitDetect ==
    /\ entry = "emccd_detect"
    /\ pc = "image_area"
    /\ shape \in Shapes
    /\ fluxmap \in [1..(shape[1] * shape[2]) -> Fluxes]
    /\ frametime \in FrameTimes
    /\ em_gain \in Gains
    /\ cic \in CicRates
    /\ cr_rate \in {0, 1}
    /\ shot_noise_on \in BOOLEAN
    /\ n_in_array = <<>>
    /\ max_out = 0
    /\ gain_cic = 0
    /\ n_elements = 0

Init == InitLocals /\ (InitGain \/ InitDetect)

(***************************************************************************)
(* rand_em_gain                                                            *)
(***************************************************************************)
\* A variant of the gain check that lets gains in [0, 1) through.
GainTooLowNegative(g) == g < 0

\* if em_gain < 1
GainTooLow(g) == g < 1

\* if em_gain < 1: raise RandEMGainException
GainCheck ==
    /\ pc = "rand_em_gain"
    /\ IF GainTooLow(em_gain)
       THEN pc' = "raised" /\ err' = "RandEMGainException"
       ELSE pc' = "apply_gain" /\ err' = err
    /\ UNCHANGED <<entry, draws, n_in_array, em_gain, max_out, gain_cic,
                   n_elements, n_out_array, primary, zero_mask,
                   cic_counts_inds, n_elements_partial, partial_gain_array,
                   samples, cdfs, fluxmap, shape, frametime, cic, cr_rate,
                   shot_noise_on, image_frame, result>>

\* n_out_array = _apply_gain(n_in_array, em_gain, max_out)
PrimaryGain ==
    /\ pc = "apply_gain"
    /\ \E ks \in [1..Len(n_in_array) -> 0..MaxK] :
        LET S == SamplesOf(n_in_array, em_gain, max_out, ks, "primary",
                           [i \in 1..Len(n_in_array) |-> i])
            out == apply_gain(n_in_array, em_gain, max_out, ks)
        IN  /\ samples' = samples \cup S
            /\ cdfs' = cdfs \cup CdfsOf(n_in_array, em_gain, max_out)
            /\ draws' = draws + Cardinality(S)
            /\ IF IndexError(S)
               THEN /\ pc' = "raised"
                    /\ err' = "IndexError"
                    /\ UNCHANGED <<n_out_array, primary>>
               ELSE /\ pc' = IF gain_cic # 0 THEN "partial_cic" ELSE "return"
                    /\ err' = err
                    /\ n_out_array' = out
                    /\ primary' = out
    /\ UNCHANGED <<entry, n_in_array, em_gain, max_out, gain_cic, n_elements,
                   zero_mask, cic_counts_inds, n_elements_partial,
                   partial_gain_array, fluxmap, shape, frametime, cic,
                   cr_rate, shot_noise_on, image_frame, result>>

\* _partial_cic: zero_mask, the Poisson draw, cic_counts_inds
CicActualize ==
    /\ pc = "partial_cic"
    /\ \E p \in [ZeroMask(n_out_array) -> Poisson(gain_cic)] :
        /\ zero_mask' = DOMAIN p
        /\ n_out_array' = [i \in 1..Len(n_out_array) |->
                              IF i \in DOMAIN p THEN p[i] ELSE n_out_array[i]]
        /\ cic_counts_inds' = SortedSeq({i \in DOMAIN p : p[i] > 0})
        /\ draws' = draws + Cardinality(DOMAIN p)
    /\ pc' = "cic_stages"
    /\ UNCHANGED <<entry, err, n_in_array, em_gain, max_out, gain_cic,
                   n_elements, primary, n_elements_partial,
                   partial_gain_array, samples, cdfs, fluxmap, shape,
                   frametime, cic, cr_rate, shot_noise_on, image_frame,
                   result>>

\* _partial_cic: n_elements_partial, rate_per_element, partial_gain_array
CicStages ==
    /\ pc = "cic_stages"
    /\ \E ks \in [1..Len(cic_counts_inds) -> 0..MaxK] :
        /\ n_elements_partial' =
              [m \in 1..Len(cic_counts_inds) |->
                  ElementsPartial(ks[m], n_elements)]
        /\ partial_gain_array' =
              [m \in 1..Len(cic_counts_inds) |->
                  PartialGain(em_gain, n_elements,
                              ElementsPartial(ks[m], n_elements))]
    /\ draws' = draws + Len(cic_counts_inds)
    /\ pc' = "cic_apply"
    /\ UNCHANGED <<entry, err, n_in_array, em_gain, max_out, gain_cic,
                   n_elements, n_out_array, primary, zero_mask,
                   cic_counts_inds, samples, cdfs, fluxmap, shape, frametime,
                   cic, cr_rate, shot_noise_on, image_frame, result>>

\* _partial_cic: the loop over np.unique(partial_gain_array)
CicApply ==
    /\ pc = "cic_apply"
    /\ \E ks \in [{cic_counts_inds[m] : m \in DOMAIN cic_counts_inds}
                    -> 0..MaxK] :
        LET S == CicSamples(n_out_array, cic_counts_inds, partial_gain_array,
                            max_out, ks)
        IN  /\ samples' = samples \cup S
            /\ cdfs' = cdfs \cup CicCdfs(n_out_array, cic_counts_inds,
                                         partial_gain_array, max_out)
            /\ draws' = draws + Cardinality(S)
            /\ IF IndexError(S)
               THEN /\ pc' = "raised"
                    /\ err' = "IndexError"
                    /\ UNCHANGED n_out_array
               ELSE /\ pc' = "return"
                    /\ err' = err
                    /\ n_out_array' =
                          CicApplied(n_out_array, cic_counts_inds,
                                     partial_gain_array, max_out, ks)
    /\ UNCHANGED <<entry, n_in_array, em_gain, max_out, gain_cic, n_elements,
                   primary, zero_mask, cic_counts_inds, n_elements_partial,
                   partial_gain_array, fluxmap, shape, frametime, cic,
                   cr_rate, shot_noise_on, image_frame, result>>

\* return n_out_array, to the caller of rand_em_gain or into serial_register
\* (a normal draw is one of -1, 0, 1).
Return ==
    /\ pc = "return"
    /\ IF entry = "rand_em_gain"
       THEN /\ result' = [shape |-> <<Len(n_out_array)>>,
                          data |-> n_out_array]
            /\ draws' = draws
       ELSE /\ \E noise \in [1..Len(n_out_array) -> {0 - 1, 0, 1}] :
                 result' = SerialRegisterTail(n_out_array, noise, shape)
            /\ draws' = draws + Len(n_out_array)
    /\ pc' = "done"
    /\ UNCHANGED <<entry, err, n_in_array, em_gain, max_out, gain_cic,
                   n_elements, n_out_array, primary, zero_mask,
                   cic_counts_inds, n_elements_partial, partial_gain_array,
                   samples, cdfs, fluxmap, shape, frametime, cic, cr_rate,
                   shot_noise_on, image_frame>>

(***************************************************************************)
(* emccd_detect                                                            *)
(***************************************************************************)
\* image_area (qe = 1, dark_current = 0): Poisson draw, cosmic hits, cap.
ImageArea ==
    /\ pc = "image_area"
    /\ \E p \in [1..Len(fluxmap) -> {E(x) : x \in PoissonCounts}],
          hit \in SUBSET (1..Len(fluxmap)) :
        /\ cr_rate = 0 => hit = {}
        /\ \A i \in 1..Len(fluxmap) :
              p[i] \in Poisson(IF shot_noise_on
                               THEN fluxmap[i] * frametime + cic
                               ELSE cic)
        /\ image_frame' =
              Cap(cosmic_hits([i \in 1..Len(fluxmap) |->
                                  IF shot_noise_on THEN p[i]
                                  ELSE fluxmap[i] * frametime + p[i]],
                              cr_rate, hit),
                  full_well_image)
    /\ draws' = draws + Len(fluxmap)
    /\ pc' = "serial_register"
    /\ UNCHANGED <<entry, err, n_in_array, em_gain, max_out, gain_cic,
                   n_elements, n_out_array, primary, zero_mask,
                   cic_counts_inds, n_elements_partial, partial_gain_array,
                   samples, cdfs, fluxmap, shape, frametime, cic, cr_rate,
                   shot_noise_on, result>>

\* serial_register: ravel, then the call rand_em_gain(serial_frame, em_gain),
\* which binds its parameters or raises TypeError for a missing one.
SerialRegister ==
    /\ pc = "serial_register"
    /\ LET args == SerialRegisterCall(image_frame, em_gain)
       IN  IF Len(args) < RandEmGainRequired
           THEN /\ pc' = "raised"
                /\ err' = "TypeError"
                /\ UNCHANGED <<n_in_array, max_out>>
           ELSE /\ pc' = "rand_em_gain"
                /\ err' = err
                /\ n_in_array' = args[1]
                /\ max_out' = args[3]
    /\ UNCHANGED <<entry, draws, em_gain, gain_cic, n_elements, n_out_array,
                   primary, zero_mask, cic_counts_inds, n_elements_partial,
                   partial_gain_array, samples, cdfs, fluxmap, shape,
                   frametime, cic, cr_rate, shot_noise_on, image_frame,
                   result>>

Next ==
    \/ GainCheck
    \/ PrimaryGain
    \/ CicActualize
    \/ CicStages
    \/ CicApply
    \/ Return
    \/ ImageArea
    \/ SerialRegister

Spec == Init /\ [][Next]_vars

(***************************************************************************)
(* Properties                                                              *)
(***************************************************************************)
NonDecreasing(f) == \A j \in 1..(Len(f) - 1) : f[j] <= f[j + 1]

\* Every pdf weight of the CDF record c underflows in exp.
AllUnderflow(c) == \A j \in 1..c.len : logpdf(c.n, c.gain, j - 1) < ExpUnderflow

\* C1: with gain_cic = 0 and em_gain >= 1, every element of the array
\* rand_em_gain returns is >= 0 and <= max_out.
C1_OutputWithinBound ==
    (entry = "rand_em_gain" /\ gain_cic = 0 /\ pc = "done") =>
        \A i \in 1..Len(result.data) :
            0 <= result.data[i] /\ result.data[i] <= E(max_out)

\* C2: rand_em_gain with em_gain < 1 raises RandEMGainException before any
\* random draw and before any output array exists; with em_gain = 1 it never
\* raises, and what it returns is an array.
C2_GainBelowOneRaises ==
    (entry = "rand_em_gain" /\ pc # "rand_em_gain") =>
        /\ em_gain < 1 =>
            /\ pc = "raised"
            /\ err = "RandEMGainException"
            /\ draws = 0
            /\ samples = {}
            /\ n_out_array = <<>>
            /\ result.data = <<>>
        /\ em_gain = 1 =>
            /\ err = "none"
            /\ pc # "raised"
            /\ pc = "done" => Len(result.data) = Len(n_in_array)

C2_Witness ==
    /\ entry = "rand_em_gain"
    /\ em_gain < 1
    /\ pc = "raised"
    /\ gain_cic # 0
    /\ Len(n_in_array) = MaxLen

\* C3: with gain_cic = 0 the returned array has the length of the input; a
\* position holding 0 returns 0, any other position returns a value
\* _rand_pdf draws for the count at that position and the given gain, and no
\* position holds a sample drawn for another count.
C3_PositionsPreserved ==
    (entry = "rand_em_gain" /\ gain_cic = 0 /\ pc = "done") =>
        /\ Len(result.data) = Len(n_in_array)
        /\ \A i \in 1..Len(n_in_array) :
            /\ n_in_array[i] = 0 =>
                /\ result.data[i] = 0
                /\ ~ \E s \in samples : s.pos = i
            /\ n_in_array[i] # 0 =>
                /\ \E k \in 0..MaxK :
                      result.data[i] =
                          SampleTable[n_in_array[i], em_gain, max_out, k].out
                /\ \E s \in samples : s.pos = i
        /\ \A s \in samples :
            /\ s.n = n_in_array[s.pos]
            /\ s.gain = em_gain
            /\ s.out = result.data[s.pos]

C3_Witness ==
    /\ entry = "rand_em_gain"
    /\ gain_cic = 0
    /\ pc = "done"
    /\ \E i, j \in 1..Len(n_in_array) :
        /\ n_in_array[i] = 0
        /\ n_in_array[j] > 0
        /\ result.data[j] > 0

\* C4: once _partial_cic has taken its zero mask, every position that was
\* nonzero after the primary gain application keeps its value; only
\* positions of the zero mask, all zero after the primary gain, can change.
C4_NonzeroPrimaryUntouched ==
    (gain_cic # 0 /\ pc \in {"cic_stages", "cic_apply", "return", "done"}) =>
        /\ \A i \in 1..Len(primary) :
              primary[i] # 0 => n_out_array[i] = primary[i]
        /\ \A i \in zero_mask : primary[i] = 0
        /\ \A m \in DOMAIN cic_counts_inds : cic_counts_inds[m] \in zero_mask

C4_Witness ==
    /\ gain_cic # 0
    /\ pc = "done"
    /\ \E i, j \in 1..Len(primary) :
        /\ primary[i] # 0
        /\ primary[j] = 0
        /\ n_out_array[j] # 0

\* C5: a CIC electron given entry stage s gets the partial gain
\* (1+r)^(N-s), and for em_gain > 1 every partial gain lies in (1, em_gain].
C5_PartialGainRemainingStages ==
    (gain_cic # 0 /\ em_gain > 1 /\ pc \in {"cic_apply", "return", "done"}) =>
        \A m \in DOMAIN partial_gain_array :
            /\ partial_gain_array[m] =
                  Pow(1 + rate_per_element(em_gain, n_elements),
                      n_elements - n_elements_partial[m])
            /\ 1 < partial_gain_array[m]
            /\ partial_gain_array[m] <= em_gain

\* C6: a call of emccd_detect with em_gain >= 1 never ends in an error and
\* returns an array of the shape of the flux map.
C6_DetectRunsToCompletion ==
    (entry = "emccd_detect" /\ em_gain >= 1) =>
        /\ err = "none"
        /\ pc # "raised"
        /\ pc = "done" => result.shape = shape

\* C7: on every path a gain below 1 is rejected with RandEMGainException
\* before any random draw is made.
C7_GainErrorBeforeSampling ==
    em_gain < 1 =>
        /\ draws = 0
        /\ samples = {}
        /\ pc = "raised" => err = "RandEMGainException"

\* C8 as stated: every CDF built for n > 2 and gain >= 1 is non-decreasing,
\* starts at or above 0 and ends at 1, whatever underflows.
C8_CdfAlwaysNormalised ==
    \A c \in cdfs :
        (c.n > E(2) /\ c.gain >= 1 /\ c.len >= 1) =>
            /\ ~ c.cdf.nan
            /\ NonDecreasing(c.cdf.num)
            /\ c.cdf.num[1] >= 0
            /\ c.cdf.num[c.len] = c.cdf.den

\* C8 amended: every CDF built for n > 2 and gain >= 1 is non-decreasing,
\* starts at or above 0 and ends at 1 unless every pdf weight underflows to
\* zero; it is all NaN exactly when every weight underflows.
C8_CdfNormalisedUnlessAllUnderflow ==
    \A c \in cdfs :
        (c.n > E(2) /\ c.gain >= 1 /\ c.len >= 1) =>
            /\ Len(c.cdf.num) = c.len
            /\ c.cdf.nan <=> AllUnderflow(c)
            /\ ~ c.cdf.nan =>
                /\ NonDecreasing(c.cdf.num)
                /\ c.cdf.num[1] >= 0
                /\ c.cdf.num[c.len] = c.cdf.den

C8_Witness ==
    \E c \in cdfs :
        /\ c.n > E(2)
        /\ c.len > 1
        /\ ~ c.cdf.nan
        /\ \E j \in 1..c.len : logpdf(c.n, c.gain, j - 1) < ExpUnderflow
        /\ \E j \in 1..(c.len - 1) : c.cdf.num[j] < c.cdf.num[j + 1]

\* C9: a count is sampled by exponential inversion exactly when it is 1, by
\* Lambert-W inversion exactly when it is 2, and by CDF lookup exactly when
\* it is above 2.
C9_PathByCount ==
    \A s \in samples :
        /\ s.path = "exp" <=> s.n = E(1)
        /\ s.path = "lambert" <=> s.n = E(2)
        /\ s.path = "cdf" <=> s.n > E(2)

\* C10: on the CDF path, for every draw and every CDF that is not NaN, the
\* rescaled lookup is at most the largest CDF entry, the index found lies in
\* 0..len-1, and the sample is an integer in 0..max_out-1.
C10_LookupInRange ==
    /\ \A c \in cdfs : \A k \in 0..MaxK :
          ~ c.cdf.nan =>
            /\ cdf_lookups(c.cdf, k)
                  <= SetMax({c.cdf.num[j] : j \in 1..c.len}) * Pow(2, k)
            /\ searchsorted(c.cdf, k) \in 0..(c.len - 1)
    /\ \A s \in samples :
          (s.path = "cdf" /\ ~ s.nan) =>
            /\ s.idx \in 0..(s.len - 1)
            /\ s.out \in {E(v) : v \in 0..(s.len - 1)}
    /\ err # "IndexError"

C10_Witness ==
    \E s \in samples :
        /\ s.path = "cdf"
        /\ ~ s.nan
        /\ s.len > 1
        /\ s.idx = s.len - 1
        /\ pc = "done"
        /\ result.data[s.pos] = E(s.len - 1)

====
